---- MODULE Spec2Model ----
(***************************************************************************)
(* Model of the synthesis upload portal front end: the App view machine    *)
(* (App.jsx), the MainForm submission handler (MainForm.jsx), the batch    *)
(* resolution pause (BatchResolution.jsx), the Login form and the          *)
(* DataTable row model with its paste ingestion (DataTable.jsx).           *)
(*                                                                         *)
(* Text is a sequence of one-character strings, so that split and trim     *)
(* are computed as the JavaScript code computes them.  A JavaScript        *)
(* object is a TLA+ record/function with the same keys.  null is NullRec   *)
(* for object-valued slots and the string null for id-valued slots.        *)
(***************************************************************************)
EXTENDS Integers, Sequences, FiniteSets, Bags, TLC

\* ------------------------------------------------------------------ bounds
MaxInFlight == 2      \* operator-started calls that may be outstanding at once
MaxRows == 2          \* rows the table may hold in the session specification

\* ------------------------------------------------------------ null values
NullRec == [isNull |-> TRUE]
null == "null"

\* ------------------------------------------------------------- text model
TAB == "\t"
NL == "\n"
COMMA == ","
SP == " "

IsSpace(c) == c \in {SP, TAB, NL}

RECURSIVE TrimStart(_)
TrimStart(s) ==
    IF s = <<>> THEN <<>>
    ELSE IF IsSpace(Head(s)) THEN TrimStart(Tail(s)) ELSE s

RECURSIVE TrimEnd(_)
TrimEnd(s) ==
    IF s = <<>> THEN <<>>
    ELSE IF IsSpace(s[Len(s)]) THEN TrimEnd(SubSeq(s, 1, Len(s) - 1)) ELSE s

\* String.prototype.trim
Trim(s) == TrimEnd(TrimStart(s))

Includes(s, c) == \E i \in 1..Len(s) : s[i] = c

\* String.prototype.split(d) for a one-character separator d: always at
\* least one piece, the empty text gives one empty piece.
RECURSIVE Split(_, _)
Split(s, d) ==
    IF ~Includes(s, d) THEN <<s>>
    ELSE LET i == CHOOSE k \in 1..Len(s) :
                     s[k] = d /\ \A j \in 1..(k - 1) : s[j] # d
         IN  <<SubSeq(s, 1, i - 1)>> \o Split(SubSeq(s, i + 1, Len(s)), d)

Range(s) == {s[i] : i \in 1..Len(s)}

\* ------------------------------------------------------------ DataTable
\* Keys of a row object: id, Timestamp, Operator and every schema field.
RowKeys(fields) == {"id", "Timestamp", "Operator"} \cup Range(fields)

\* The object literal {id, Timestamp: '', Operator: operatorName || ''}
\* followed by fields.forEach(field => row[field] = '').
BlankRow(id, fields, operatorName) ==
    [k \in RowKeys(fields) |->
        IF k \in Range(fields) THEN <<>>
        ELSE IF k = "id" THEN id
        ELSE IF k = "Timestamp" THEN <<>>
        ELSE operatorName]

\* Variant: the value is not trimmed before it is compared with ''.
RowNonEmpty_NoTrim(row, fields) ==
    \E i \in 1..Len(fields) : row[fields[i]] # <<>>

\* fields.some(field => row[field] && String(row[field]).trim() !== '')
RowNonEmpty(row, fields) ==
    \E i \in 1..Len(fields) : row[fields[i]] # <<>> /\ Trim(row[fields[i]]) # <<>>

\* const { id, ...rest } = row
StripId(row) == [k \in (DOMAIN row) \ {"id"} |-> row[k]]

\* Variant that strips the ids but keeps the empty rows.
CleanedRows_KeepEmpty(rs, fields) == [i \in 1..Len(rs) |-> StripId(rs[i])]

\* newRows.filter(non empty).map(strip id): the value handed to onChange.
CleanedRows(rs, fields) ==
    LET Keep(r) == RowNonEmpty(r, fields)
        ne == SelectSeq(rs, Keep)
    IN  [i \in 1..Len(ne) |-> StripId(ne[i])]

\* Variant: Timestamp is placed before Operator.
ColumnOrder_TimestampFirst(fields) ==
    LET IsOther(f) == f # "Sample Name" /\ f # "Sample Description"
        otherFields == SelectSeq(fields, IsOther)
    IN  (IF "Sample Name" \in Range(fields) THEN <<"Sample Name">> ELSE <<>>)
        \o <<"Timestamp", "Operator">>
        \o otherFields
        \o (IF "Sample Description" \in Range(fields)
            THEN <<"Sample Description">> ELSE <<>>)

\* Column order: Sample Name, Operator, Timestamp, other fields,
\* Sample Description.
ColumnOrder(fields) ==
    LET IsOther(f) == f # "Sample Name" /\ f # "Sample Description"
        otherFields == SelectSeq(fields, IsOther)
    IN  (IF "Sample Name" \in Range(fields) THEN <<"Sample Name">> ELSE <<>>)
        \o <<"Operator", "Timestamp">>
        \o otherFields
        \o (IF "Sample Description" \in Range(fields)
            THEN <<"Sample Description">> ELSE <<>>)

\* Variant: Sample Description is left among the other fields.
Columns_DescInPlace(fields) ==
    IF Len(fields) = 0 THEN <<>>
    ELSE LET IsOther(f) == f # "Sample Name"
             otherFields == SelectSeq(fields, IsOther)
             sampleName == IF \E i \in 1..Len(fields) : fields[i] = "Sample Name"
                           THEN <<"Sample Name">> ELSE <<>>
         IN  sampleName \o <<"Operator">> \o <<"Timestamp">> \o otherFields

\* The keys of the grid's columns (useMemo columns), in rendering order;
\* computed on its own, as the component computes it a second time.
Columns(fields) ==
    IF Len(fields) = 0 THEN <<>>
    ELSE LET IsOther(f) == f # "Sample Name" /\ f # "Sample Description"
             otherFields == SelectSeq(fields, IsOther)
             sampleName == IF \E i \in 1..Len(fields) : fields[i] = "Sample Name"
                           THEN <<"Sample Name">> ELSE <<>>
             sampleDesc == IF \E i \in 1..Len(fields) :
                                  fields[i] = "Sample Description"
                           THEN <<"Sample Description">> ELSE <<>>
         IN  sampleName \o <<"Operator">> \o <<"Timestamp">> \o otherFields
             \o sampleDesc

\* Variant: blank lines are not filtered out.
PastedRows_KeepBlank(text) == Split(text, NL)

\* pastedData.split('\n').filter(row => row.trim())
PastedRows(text) ==
    LET NonBlank(line) == Trim(line) # <<>>
    IN  SelectSeq(Split(text, NL), NonBlank)

\* One pasted line to its trimmed cells; the separator is chosen per line.
ParseCells(rowString) ==
    LET cells == IF Includes(rowString, TAB) THEN Split(rowString, TAB)
                 ELSE Split(rowString, COMMA)
    IN  [i \in 1..Len(cells) |-> Trim(cells[i])]

\* Variant: the cells are mapped in the order of the schema.
PastedRow_SchemaOrder(id, cells, fields, operatorName) ==
    LET blank == BlankRow(id, fields, operatorName)
        Hits(k) == {i \in 1..Len(cells) : i <= Len(fields) /\ fields[i] = k}
        Last(S) == CHOOSE i \in S : \A j \in S : j <= i
    IN  [k \in RowKeys(fields) |->
            IF Hits(k) # {} THEN cells[Last(Hits(k))] ELSE blank[k]]

\* The row built for one pasted line: defaults, then cells.forEach in
\* order, so the last cell mapped to a key wins.
PastedRow(id, cells, fields, operatorName) ==
    LET order == ColumnOrder(fields)
        blank == BlankRow(id, fields, operatorName)
        Hits(k) == {i \in 1..Len(cells) : i <= Len(order) /\ order[i] = k}
        Last(S) == CHOOSE i \in S : \A j \in S : j <= i
    IN  [k \in RowKeys(fields) |->
            IF Hits(k) # {} THEN cells[Last(Hits(k))] ELSE blank[k]]

\* Variant: the id is built from idx alone.
NewRows_IdxOnly(text, rs, fields, operatorName) ==
    LET lines == PastedRows(text)
    IN  [i \in 1..Len(lines) |->
            PastedRow(i - 1, ParseCells(lines[i]), fields, operatorName)]

\* parsedRows.map((cells, idx) => row with id `row-${rows.length + idx}`)
\* The id is modelled by its numeric suffix.
NewRows(text, rs, fields, operatorName) ==
    LET lines == PastedRows(text)
    IN  [i \in 1..Len(lines) |->
            PastedRow(Len(rs) + (i - 1), ParseCells(lines[i]), fields,
                      operatorName)]

\* ------------------------------------------------------------------ state
VARIABLES
    currentView,        \* App: 'login', 'main', 'batch_resolution', 'summary'
    userInfo,           \* App: the logged-in user or null
    sessionToken,       \* App
    batchResolution,    \* App: the resolution result shown in the pause
    pendingUploadData,  \* App: the payload saved at suspension
    summaryMessage,     \* App
    summaryDetails,     \* App
    loginForm,          \* Login component state
    mainForm,           \* MainForm component state
    rows,               \* DataTable component state
    batchRes,           \* BatchResolution component state
    calls,              \* bag of the external calls awaiting their response
    last                \* the handler step taken last and what it did

appVars == <<currentView, userInfo, sessionToken, batchResolution,
             pendingUploadData, summaryMessage, summaryDetails>>
vars == <<currentView, userInfo, sessionToken, batchResolution,
          pendingUploadData, summaryMessage, summaryDetails,
          loginForm, mainForm, rows, batchRes, calls, last>>

\* ------------------------------------------------ the environment's values
TheUser == [name |-> <<"N">>, email |-> "op@lab", orcid |-> "0000-1",
            projects |-> <<"P1">>]
TheToken == "tok"

\* GET /synthesis/fields: synthesis type -> ordered field names.
SchemaMap == [T1 |-> <<"Sample Name", "Concentration">>]
NoSchemas == [t \in {} |-> <<>>]

\* ------------------------------------------------------- component state
LoginInit == [email |-> <<>>, loading |-> FALSE, error |-> ""]

FormInit == [synthesisFields |-> NoSchemas, selectedProject |-> "",
             selectedSynthesisType |-> "", batchId |-> <<>>,
             tableData |-> <<>>, loading |-> FALSE, error |-> "",
             fetching |-> FALSE]

\* useState(resolution.input || '') for batchId, '' and false for the rest.
BRInit(resolution) ==
    [selectedBatch |-> "", batchName |-> <<>>,
     batchId |-> IF resolution = NullRec THEN <<>> ELSE resolution.input,
     batchDescription |-> <<>>, loading |-> FALSE, error |-> ""]

\* Which components the App render mounts.
LoginMountedIn(view) == view = "login"
FormMountedIn(view, user) == view = "main" /\ user # NullRec
BRMountedIn(view, resolution) ==
    view = "batch_resolution" /\ resolution # NullRec

LoginMounted == LoginMountedIn(currentView)
FormMounted == FormMountedIn(currentView, userInfo)
BRMounted == BRMountedIn(currentView, batchResolution)

\* MainForm: currentFields and showTable.
CurrentFieldsOf(f) ==
    IF f.selectedSynthesisType # ""
       /\ f.selectedSynthesisType \in DOMAIN f.synthesisFields
    THEN f.synthesisFields[f.selectedSynthesisType] ELSE <<>>
ShowTableOf(f) == f.selectedSynthesisType # "" /\ Len(CurrentFieldsOf(f)) > 0

currentFields == CurrentFieldsOf(mainForm)
showTable == FormMounted /\ ShowTableOf(mainForm)

\* ---------------------------------------------------------- calls in flight
\* The component instance whose state setters a call's continuation uses.
Owner(c) ==
    CASE c.kind = "login" -> "Login"
      [] c.kind = "resolve" -> "MainForm"
      [] c.kind = "upload" /\ c.from = "MainForm" -> "MainForm"
      [] c.kind = "upload" /\ c.from = "App" -> "App"
      [] c.kind = "create" -> "BatchResolution"

Issue(B, c) == B (+) SetToBag({c})
Settle(B, c) == B (-) SetToBag({c})
InFlight == BagToSet(calls)
InFlightOf(kind) == {c \in InFlight : c.kind = kind}
Outstanding == BagCardinality(calls)

\* An unmounted instance's setters do nothing: its calls lose their owner.
Orphan(B, owners) ==
    LET Kill(c) == IF Owner(c) \in owners THEN [c EXCEPT !.live = FALSE]
                   ELSE c
        S == {Kill(c) : c \in BagToSet(B)}
    IN  [d \in S |->
            CopiesIn(d, B)
            + (IF Kill([d EXCEPT !.live = TRUE]) = d /\ d.live = FALSE
               THEN CopiesIn([d EXCEPT !.live = TRUE], B) ELSE 0)]

NoStep == [op |-> "none", issued |-> NullRec, call |-> NullRec,
           resp |-> NullRec, msg |-> "", input |-> NullRec]
Step(op, issued, call, resp, msg) ==
    [op |-> op, issued |-> issued, call |-> call, resp |-> resp, msg |-> msg,
     input |-> NullRec]
\* A step of a handler together with the value its event carried.
StepOn(op, input) ==
    [Step(op, NullRec, NullRec, NullRec, "") EXCEPT !.input = input]

Init ==
    /\ currentView = "login"
    /\ userInfo = NullRec
    /\ sessionToken = null
    /\ batchResolution = NullRec
    /\ pendingUploadData = NullRec
    /\ summaryMessage = ""
    /\ summaryDetails = NullRec
    /\ loginForm = LoginInit
    /\ mainForm = FormInit
    /\ rows = <<>>
    /\ batchRes = BRInit(NullRec)
    /\ calls = EmptyBag
    /\ last = NoStep

\* ------------------------------------------------------------- rendering
\* The App state (view2, user2, res2) decides which components stay
\* mounted, mount fresh or unmount.  A component that stays mounted takes
\* the state its handler computed (formUpd, rowsUpd, brUpd, loginUpd); one
\* that mounts starts from its useState defaults (MainForm starts its
\* fetch of the schemas); one that unmounts loses its state and the
\* continuations of its calls no longer reach a mounted instance.
Render(view2, user2, res2, loginUpd, formUpd, rowsUpd, brUpd, callsUpd) ==
    LET loginA == LoginMountedIn(view2)
        formA == FormMountedIn(view2, user2)
        brA == BRMountedIn(view2, res2)
        gone == (IF LoginMounted /\ ~loginA THEN {"Login"} ELSE {})
                \cup (IF FormMounted /\ ~formA THEN {"MainForm"} ELSE {})
                \cup (IF BRMounted /\ ~brA THEN {"BatchResolution"} ELSE {})
    IN  /\ loginForm' = IF loginA /\ LoginMounted THEN loginUpd ELSE LoginInit
        /\ mainForm' = IF formA
                       THEN (IF FormMounted THEN formUpd
                             ELSE [FormInit EXCEPT !.fetching = TRUE])
                       ELSE FormInit
        /\ rows' = IF formA /\ FormMounted /\ ShowTableOf(formUpd)
                   THEN rowsUpd ELSE <<>>
        /\ batchRes' = IF brA
                       THEN (IF BRMounted THEN brUpd ELSE BRInit(res2))
                       ELSE BRInit(NullRec)
        /\ calls' = Orphan(callsUpd, gone)

\* A step that leaves the App state alone.
Local(loginUpd, formUpd, rowsUpd, brUpd, callsUpd) ==
    /\ UNCHANGED appVars
    /\ Render(currentView, userInfo, batchResolution,
              loginUpd, formUpd, rowsUpd, brUpd, callsUpd)

Edit == Step("edit", NullRec, NullRec, NullRec, "")

\* --------------------------------------------------- the operator's inputs
EmailTexts == {<<"e">>}
BatchTexts == {<<>>, <<SP>>, <<"B">>}
NameTexts == {<<>>, <<SP>>, <<"n">>}
NewIdTexts == {<<>>, <<"B">>}
DescTexts == {<<"d">>}
CellKeys == {"Sample Name"}
CellTexts == {<<>>, <<"A">>}
PasteTexts == {<<"A">>}

\* ------------------------------------------- the backend's answers (spec 6)
MatchLists == {<<[unique_id |-> "u1", sample_name |-> "B"],
                 [unique_id |-> "u2", sample_name |-> "B"]>>,
               <<[unique_id |-> "u2", sample_name |-> "B"],
                 [unique_id |-> "u4", sample_name |-> "B"]>>}
CandidateIds == {"u1", "u2", "u4"}

ResolveAnswers(input) ==
    {[status |-> "resolved", batch_id |-> "u1"],
     [status |-> "not_found", input |-> input],
     [status |-> "throw"]}
    \cup {[status |-> "multiple_matches", input |-> input, matches |-> m] :
             m \in MatchLists}

CreateAnswers ==
    {[success |-> TRUE, unique_id |-> "u3"],
     [success |-> FALSE, message |-> "rejected"],
     [status |-> "throw"]}

UploadAnswers(payload) ==
    {[success |-> TRUE, message |-> "uploaded",
      summary |-> [Project |-> payload.project,
                   TotalRows |-> Len(payload.data)]],
     [success |-> FALSE, message |-> "rejected"],
     [status |-> "throw"]}

LoginAnswers ==
    {[success |-> TRUE, user |-> TheUser, session_token |-> TheToken],
     [success |-> FALSE, message |-> "unknown"],
     [status |-> "throw"]}

Threw(resp) == "status" \in DOMAIN resp /\ resp.status = "throw"
Succeeded(resp) == "success" \in DOMAIN resp /\ resp.success

\* ------------------------------------------------------------------ Login
LoginSetEmail(e) ==
    /\ LoginMounted /\ ~loginForm.loading
    /\ e # loginForm.email
    /\ Local([loginForm EXCEPT !.email = e], mainForm, rows, batchRes, calls)
    /\ last' = Edit

\* Login.handleSubmit up to its await.
LoginHandleSubmit ==
    /\ LoginMounted /\ ~loginForm.loading
    /\ IF Trim(loginForm.email) = <<>>
       THEN /\ Local([loginForm EXCEPT
                        !.error = "Please enter a valid email address"],
                     mainForm, rows, batchRes, calls)
            /\ last' = Step("Login.handleSubmit", NullRec, NullRec, NullRec,
                            "Please enter a valid email address")
       ELSE LET c == [kind |-> "login", email |-> Trim(loginForm.email),
                      live |-> TRUE]
            IN  /\ Outstanding < MaxInFlight
                /\ Local([loginForm EXCEPT !.error = "", !.loading = TRUE],
                         mainForm, rows, batchRes, Issue(calls, c))
                /\ last' = Step("Login.handleSubmit", c, NullRec, NullRec, "")

\* App.handleLoginSuccess
HandleLoginSuccess(user, token, callsUpd) ==
    /\ userInfo' = user
    /\ sessionToken' = token
    /\ currentView' = "main"
    /\ UNCHANGED <<batchResolution, pendingUploadData, summaryMessage,
                   summaryDetails>>
    /\ Render("main", user, batchResolution,
              loginForm, mainForm, rows, batchRes, callsUpd)

\* Login.handleSubmit from the answer of login() on.
RecvLogin(c, resp) ==
    /\ c \in InFlight /\ c.kind = "login"
    /\ resp \in LoginAnswers
    /\ last' = Step("Login.response", NullRec, c, resp, "")
    /\ IF Succeeded(resp)
       THEN HandleLoginSuccess(resp.user, resp.session_token,
                               Settle(calls, c))
       ELSE Local(IF c.live
                  THEN [loginForm EXCEPT
                          !.error = IF Threw(resp)
                                    THEN "An error occurred during login"
                                    ELSE resp.message,
                          !.loading = FALSE]
                  ELSE loginForm,
                  mainForm, rows, batchRes, Settle(calls, c))

\* -------------------------------------------------------------------- App
\* App.handleAddMore (Summary: + Add More Data)
HandleAddMore ==
    /\ currentView = "summary"
    /\ currentView' = "main"
    /\ summaryMessage' = ""
    /\ summaryDetails' = NullRec
    /\ UNCHANGED <<userInfo, sessionToken, batchResolution, pendingUploadData>>
    /\ Render("main", userInfo, batchResolution,
              loginForm, mainForm, rows, batchRes, calls)
    /\ last' = Step("handleAddMore", NullRec, NullRec, NullRec, "")

\* App.handleLogout (Summary: Logout)
HandleLogout ==
    /\ currentView = "summary"
    /\ userInfo' = NullRec
    /\ sessionToken' = null
    /\ summaryMessage' = ""
    /\ summaryDetails' = NullRec
    /\ batchResolution' = NullRec
    /\ pendingUploadData' = NullRec
    /\ currentView' = "login"
    /\ Render("login", NullRec, NullRec,
              loginForm, mainForm, rows, batchRes, calls)
    /\ last' = Step("handleLogout", NullRec, NullRec, NullRec, "")

\* --------------------------------------------------------------- MainForm
\* useEffect on mount: fetchFields, from the answer of getSynthesisFields on.
RecvFields(ok) ==
    /\ FormMounted /\ mainForm.fetching
    /\ Local(loginForm,
             IF ok
             THEN [mainForm EXCEPT !.synthesisFields = SchemaMap,
                                   !.fetching = FALSE]
             ELSE [mainForm EXCEPT !.error = "Failed to load synthesis fields",
                                   !.fetching = FALSE],
             rows, batchRes, calls)
    /\ last' = Step("fetchFields", NullRec, NullRec, NullRec, "")

\* <select id="project"> onChange
SetSelectedProject(p) ==
    /\ FormMounted /\ ~mainForm.loading
    /\ p \in {""} \cup Range(userInfo.projects)
    /\ p # mainForm.selectedProject
    /\ Local(loginForm, [mainForm EXCEPT !.selectedProject = p],
             rows, batchRes, calls)
    /\ last' = Edit

\* Variant: the table does not react to the change of its fields.
HandleSynthesisTypeChange_KeepRows(t) ==
    /\ FormMounted /\ ~mainForm.loading
    /\ t \in {""} \cup DOMAIN mainForm.synthesisFields
    /\ t # mainForm.selectedSynthesisType
    /\ Local(loginForm,
             [mainForm EXCEPT !.selectedSynthesisType = t,
                              !.tableData = <<>>, !.error = ""],
             rows, batchRes, calls)
    /\ last' = StepOn("handleSynthesisTypeChange",
                      [from |-> mainForm.selectedSynthesisType,
                       rows |-> Len(rows)])

\* MainForm.handleSynthesisTypeChange, and DataTable's useEffect([fields])
\* that follows the render: setRows([]), onChange([]).
HandleSynthesisTypeChange(t) ==
    /\ FormMounted /\ ~mainForm.loading
    /\ t \in {""} \cup DOMAIN mainForm.synthesisFields
    /\ t # mainForm.selectedSynthesisType
    /\ Local(loginForm,
             [mainForm EXCEPT !.selectedSynthesisType = t,
                              !.tableData = <<>>, !.error = ""],
             <<>>, batchRes, calls)
    /\ last' = StepOn("handleSynthesisTypeChange",
                      [from |-> mainForm.selectedSynthesisType,
                       rows |-> Len(rows)])

\* <input id="batchId"> onChange
SetBatchId(b) ==
    /\ FormMounted /\ ~mainForm.loading
    /\ b # mainForm.batchId
    /\ Local(loginForm, [mainForm EXCEPT !.batchId = b], rows, batchRes, calls)
    /\ last' = Edit

\* Variant: the empty-table check is missing.
ValidationMessage_NoRowCheck(f) ==
    IF f.selectedProject = "" THEN "Please select a project"
    ELSE IF f.selectedSynthesisType = "" THEN "Please select a synthesis type"
    ELSE ""

\* The three checks at the head of handleUpload: the message of the first
\* one that fails, '' when all pass.
ValidationMessage(f) ==
    IF f.selectedProject = "" THEN "Please select a project"
    ELSE IF f.selectedSynthesisType = "" THEN "Please select a synthesis type"
    ELSE IF Len(f.tableData) = 0 THEN "Please enter at least one row of data"
    ELSE ""

\* Variant that reads the rows of the table on screen at the time of the
\* upload, ids stripped, in place of the tableData of the closure.
PerformUploadData_CurrentRows(user, f, resolvedBatchId) ==
    [email |-> user.email, orcid |-> user.orcid, user_name |-> user.name,
     project |-> f.selectedProject,
     synthesis_type |-> f.selectedSynthesisType,
     batch_id |-> resolvedBatchId,
     data |-> [i \in 1..Len(rows) |-> StripId(rows[i])]]

\* The uploadData object built by performUpload.
PerformUploadData(user, f, resolvedBatchId) ==
    [email |-> user.email, orcid |-> user.orcid, user_name |-> user.name,
     project |-> f.selectedProject,
     synthesis_type |-> f.selectedSynthesisType,
     batch_id |-> resolvedBatchId, data |-> f.tableData]

\* performUpload up to its await; f and user are the values of the render
\* whose handleUpload is running.
PerformUpload(user, f, resolvedBatchId, isLive) ==
    [kind |-> "upload", from |-> "MainForm",
     payload |-> PerformUploadData(user, f, resolvedBatchId),
     live |-> isLive]

\* The resolveBatch call of handleUpload, with the render's values that the
\* rest of handleUpload will use.
ResolveCall(user, f) ==
    [kind |-> "resolve", batch_id |-> Trim(f.batchId), orcid |-> user.orcid,
     project |-> f.selectedProject, live |-> TRUE,
     closure |-> [userInfo |-> user, selectedProject |-> f.selectedProject,
                  selectedSynthesisType |-> f.selectedSynthesisType,
                  tableData |-> f.tableData]]

\* MainForm.handleUpload up to its first await (Upload Data button).
HandleUpload ==
    /\ showTable /\ ~mainForm.loading
    /\ LET msg == ValidationMessage(mainForm)
           c == IF Trim(mainForm.batchId) # <<>>
                THEN ResolveCall(userInfo, mainForm)
                ELSE PerformUpload(userInfo, mainForm, null, TRUE)
       IN  IF msg # ""
           THEN /\ Local(loginForm, [mainForm EXCEPT !.error = msg],
                         rows, batchRes, calls)
                /\ last' = Step("handleUpload", NullRec, NullRec, NullRec, msg)
           ELSE /\ Outstanding < MaxInFlight
                /\ Local(loginForm,
                         [mainForm EXCEPT !.error = "", !.loading = TRUE],
                         rows, batchRes, Issue(calls, c))
                /\ last' = Step("handleUpload", c, NullRec, NullRec, "")

\* App.handleShowBatchResolution
HandleShowBatchResolution(resolution, uploadData, callsUpd) ==
    /\ batchResolution' = resolution
    /\ pendingUploadData' = uploadData
    /\ currentView' = "batch_resolution"
    /\ UNCHANGED <<userInfo, sessionToken, summaryMessage, summaryDetails>>
    /\ Render("batch_resolution", userInfo, resolution,
              loginForm, mainForm, rows, batchRes, callsUpd)

\* Variant: the pause is opened without the rows.
PendingOf_NoData(cl) ==
    [project |-> cl.selectedProject,
     synthesisType |-> cl.selectedSynthesisType,
     data |-> <<>>]

\* The payload handleUpload hands to onShowBatchResolution.
PendingOf(cl) ==
    [project |-> cl.selectedProject,
     synthesisType |-> cl.selectedSynthesisType,
     data |-> cl.tableData]

\* MainForm.handleUpload from the answer of resolveBatch on.
RecvResolve(c, resp) ==
    /\ c \in InFlight /\ c.kind = "resolve"
    /\ resp \in ResolveAnswers(c.batch_id)
    /\ IF Threw(resp)
       THEN /\ Local(loginForm,
                     IF c.live
                     THEN [mainForm EXCEPT
                             !.error = "An error occurred during upload",
                             !.loading = FALSE]
                     ELSE mainForm,
                     rows, batchRes, Settle(calls, c))
            /\ last' = Step("resolve.response", NullRec, c, resp,
                            "An error occurred during upload")
       ELSE IF resp.status \in {"not_found", "multiple_matches"}
       THEN /\ HandleShowBatchResolution(resp, PendingOf(c.closure),
                                         Settle(calls, c))
            /\ last' = Step("resolve.response", NullRec, c, resp, "")
       ELSE LET f == [selectedProject |-> c.closure.selectedProject,
                      selectedSynthesisType |->
                          c.closure.selectedSynthesisType,
                      tableData |-> c.closure.tableData]
                u == PerformUpload(c.closure.userInfo, f, resp.batch_id,
                                   c.live)
            IN  /\ Local(loginForm, mainForm, rows, batchRes,
                         Issue(Settle(calls, c), u))
                /\ last' = Step("resolve.response", u, c, resp, "")

\* App.handleUploadSuccess
HandleUploadSuccess(message, summary, callsUpd) ==
    /\ summaryMessage' = message
    /\ summaryDetails' = summary
    /\ currentView' = "summary"
    /\ UNCHANGED <<userInfo, sessionToken, batchResolution, pendingUploadData>>
    /\ Render("summary", userInfo, batchResolution,
              loginForm, mainForm, rows, batchRes, callsUpd)

\* MainForm.performUpload from the answer of uploadSynthesisData on.
RecvUploadForm(c, resp) ==
    /\ c \in InFlight /\ c.kind = "upload" /\ c.from = "MainForm"
    /\ resp \in UploadAnswers(c.payload)
    /\ IF Succeeded(resp)
       THEN /\ HandleUploadSuccess(resp.message, resp.summary,
                                   Settle(calls, c))
            /\ last' = Step("performUpload.response", NullRec, c, resp, "")
       ELSE LET msg == IF Threw(resp) THEN "An error occurred during upload"
                       ELSE resp.message
            IN  /\ Local(loginForm,
                         IF c.live
                         THEN [mainForm EXCEPT !.error = msg,
                                               !.loading = FALSE]
                         ELSE mainForm,
                         rows, batchRes, Settle(calls, c))
                /\ last' = Step("performUpload.response", NullRec, c, resp,
                                msg)

\* MainForm.handleCancel (Cancel button of the form)
HandleCancel ==
    /\ showTable /\ ~mainForm.loading
    /\ Local(loginForm,
             [mainForm EXCEPT !.selectedSynthesisType = "",
                              !.tableData = <<>>, !.batchId = <<>>,
                              !.error = ""],
             <<>>, batchRes, calls)
    /\ last' = Step("handleCancel", NullRec, NullRec, NullRec, "")

\* -------------------------------------------------------------- DataTable
\* The table buttons and the grid are rendered whenever the table is shown;
\* none of them looks at MainForm's loading flag.
operatorName == userInfo.name

TableStep(op, rowsUpd, tableDataUpd) ==
    /\ Local(loginForm, [mainForm EXCEPT !.tableData = tableDataUpd],
             rowsUpd, batchRes, calls)
    /\ last' = Step(op, NullRec, NullRec, NullRec, "")

PasteStep(text, rowsUpd, tableDataUpd) ==
    /\ Local(loginForm, [mainForm EXCEPT !.tableData = tableDataUpd],
             rowsUpd, batchRes, calls)
    /\ last' = StepOn("handlePaste", text)

\* DataTable.handleAddRow: no onChange call.
HandleAddRow ==
    /\ showTable
    /\ Len(rows) < MaxRows
    /\ TableStep("handleAddRow",
                 Append(rows, BlankRow(Len(rows), currentFields, operatorName)),
                 mainForm.tableData)

\* DataTable.handleRemoveRow (button disabled on an empty table)
HandleRemoveRow ==
    /\ showTable
    /\ Len(rows) > 0
    /\ LET newRows == SubSeq(rows, 1, Len(rows) - 1)
       IN  TableStep("handleRemoveRow", newRows,
                     CleanedRows(newRows, currentFields))

\* Variant: clearing removes the rows.
ClearedRows_Empty(rs, fields, opName) == <<>>

\* DataTable.handleClearAll
ClearedRows(rs, fields, opName) ==
    [i \in 1..Len(rs) |-> BlankRow(rs[i].id, fields, opName)]

HandleClearAll ==
    /\ showTable
    /\ TableStep("handleClearAll",
                 ClearedRows(rows, currentFields, operatorName), <<>>)

\* DataTable.handlePaste
HandlePaste(text) ==
    /\ showTable
    /\ LET newRows == NewRows(text, rows, currentFields, operatorName)
           allRows == rows \o newRows
       IN  /\ Len(allRows) <= MaxRows
           /\ IF Len(PastedRows(text)) = 0
              THEN PasteStep(text, rows, mainForm.tableData)
              ELSE PasteStep(text, allRows,
                             CleanedRows(allRows, currentFields))

\* DataTable.handleRowsChange, called by the grid when the TextEditor of
\* row i, column key, reports the value v: {...row, [column.key]: v}.
HandleRowsChange(i, key, v) ==
    /\ showTable
    /\ i \in 1..Len(rows)
    /\ key \in Range(Columns(currentFields))
    /\ rows[i][key] # v
    /\ LET newRows == [rows EXCEPT ![i] = [rows[i] EXCEPT ![key] = v]]
       IN  TableStep("handleRowsChange", newRows,
                     CleanedRows(newRows, currentFields))

\* -------------------------------------------------------- BatchResolution
\* Variant: the creation form is rendered for every resolution status.
NotFoundShown_AnyStatus == BRMounted

NotFoundShown == BRMounted /\ batchResolution.status = "not_found"
MatchesShown == BRMounted /\ batchResolution.status = "multiple_matches"

MatchIds(resolution) ==
    {resolution.matches[i].unique_id : i \in 1..Len(resolution.matches)}

BRStep(brUpd) == Local(loginForm, mainForm, rows, brUpd, calls)

\* The inputs of the not_found form, disabled while loading.
SetBatchName(v) ==
    /\ NotFoundShown /\ ~batchRes.loading
    /\ v # batchRes.batchName
    /\ BRStep([batchRes EXCEPT !.batchName = v])
    /\ last' = Edit

SetNewBatchId(v) ==
    /\ NotFoundShown /\ ~batchRes.loading
    /\ v # batchRes.batchId
    /\ BRStep([batchRes EXCEPT !.batchId = v])
    /\ last' = Edit

SetBatchDescription(v) ==
    /\ NotFoundShown /\ ~batchRes.loading
    /\ v # batchRes.batchDescription
    /\ BRStep([batchRes EXCEPT !.batchDescription = v])
    /\ last' = Edit

\* <select id="batchSelect"> onChange: '' or one of the listed candidates.
SetSelectedBatch(v) ==
    /\ MatchesShown
    /\ v \in {""} \cup MatchIds(batchResolution)
    /\ v # batchRes.selectedBatch
    /\ BRStep([batchRes EXCEPT !.selectedBatch = v])
    /\ last' = Edit

\* Variant: the resumption forgets the resolved batch id.
ResolvedUploadData_NullBatch(user, pending, resolvedBatchId) ==
    [email |-> user.email, orcid |-> user.orcid, user_name |-> user.name,
     project |-> pending.project, synthesis_type |-> pending.synthesisType,
     batch_id |-> null, data |-> pending.data]

\* The uploadData object built by App.handleBatchResolved.
ResolvedUploadData(user, pending, resolvedBatchId) ==
    [email |-> user.email, orcid |-> user.orcid, user_name |-> user.name,
     project |-> pending.project, synthesis_type |-> pending.synthesisType,
     batch_id |-> resolvedBatchId, data |-> pending.data]

\* The uploadData object built by App.handleBatchResolutionCancel.
CancelUploadData(user, pending) ==
    [email |-> user.email, orcid |-> user.orcid, user_name |-> user.name,
     project |-> pending.project, synthesis_type |-> pending.synthesisType,
     batch_id |-> null, data |-> pending.data]

AppUpload(payload) ==
    [kind |-> "upload", from |-> "App", payload |-> payload, live |-> TRUE]

\* The catch block and the tail shared by handleBatchResolved and
\* handleBatchResolutionCancel: alert, setCurrentView('main'), then clear
\* the batch resolution state.
FailToMain(brUpd, callsUpd) ==
    /\ currentView' = "main"
    /\ batchResolution' = NullRec
    /\ pendingUploadData' = NullRec
    /\ UNCHANGED <<userInfo, sessionToken, summaryMessage, summaryDetails>>
    /\ Render("main", userInfo, NullRec,
              loginForm, mainForm, rows, brUpd, callsUpd)

\* App.handleBatchResolved / handleBatchResolutionCancel up to the await:
\* user and pending are the values of the render whose handler runs; reading
\* a property of null throws inside the try block.
StartAppUpload(op, user, pending, payload, brUpd, callsUpd, call, resp) ==
    IF user = NullRec \/ pending = NullRec
    THEN /\ FailToMain(brUpd, callsUpd)
         /\ last' = Step(op, NullRec, call, resp, "Upload error")
    ELSE /\ Local(loginForm, mainForm, rows, brUpd,
                  Issue(callsUpd, AppUpload(payload)))
         /\ last' = Step(op, AppUpload(payload), call, resp, "")

\* The createBatch request of handleCreateBatch, with the onResolve closure
\* of the render whose handler runs.
CreateCall(user, pending, br) ==
    [kind |-> "create",
     request |-> [batch_name |-> br.batchName, batch_id |-> br.batchId,
                  batch_description |-> br.batchDescription,
                  orcid |-> user.orcid,
                  project |-> IF pending = NullRec THEN null
                              ELSE pending.project],
     live |-> TRUE,
     closure |-> [userInfo |-> user, pendingUploadData |-> pending]]

\* Variant: the checks compare the raw text, without trim().
CreateValidationMessage_NoTrim(br) ==
    IF br.batchName = <<>> THEN "Batch name is required"
    ELSE IF br.batchId = <<>> THEN "Batch ID is required"
    ELSE ""

\* The two local checks of handleCreateBatch: the message of the first one
\* that fails, '' when both pass.
CreateValidationMessage(br) ==
    IF Trim(br.batchName) = <<>> THEN "Batch name is required"
    ELSE IF Trim(br.batchId) = <<>> THEN "Batch ID is required"
    ELSE ""

\* BatchResolution.handleCreateBatch up to its await (Create Batch button).
HandleCreateBatch ==
    /\ NotFoundShown /\ ~batchRes.loading
    /\ LET msg == CreateValidationMessage(batchRes)
       IN  IF msg # ""
           THEN /\ BRStep([batchRes EXCEPT !.error = msg])
                /\ last' = Step("handleCreateBatch", NullRec, NullRec,
                                NullRec, msg)
           ELSE IF userInfo = NullRec
           THEN \* userInfo.orcid throws inside the try block
                /\ BRStep([batchRes EXCEPT
                     !.error = "An error occurred while creating the batch",
                     !.loading = FALSE])
                /\ last' = Step("handleCreateBatch", NullRec, NullRec, NullRec,
                                "An error occurred while creating the batch")
           ELSE LET c == CreateCall(userInfo, pendingUploadData, batchRes)
                IN  /\ Outstanding < MaxInFlight
                    /\ Local(loginForm, mainForm, rows,
                             [batchRes EXCEPT !.error = "", !.loading = TRUE],
                             Issue(calls, c))
                    /\ last' = Step("handleCreateBatch", c, NullRec, NullRec,
                                    "")

\* handleCreateBatch from the answer of createBatch on.  onResolve is not
\* awaited: the finally block clears loading while the upload is in flight.
RecvCreate(c, resp) ==
    /\ c \in InFlight /\ c.kind = "create"
    /\ resp \in CreateAnswers
    /\ IF Succeeded(resp)
       THEN StartAppUpload("createBatch.response",
                c.closure.userInfo, c.closure.pendingUploadData,
                ResolvedUploadData(c.closure.userInfo,
                                   c.closure.pendingUploadData,
                                   resp.unique_id),
                IF c.live THEN [batchRes EXCEPT !.loading = FALSE]
                ELSE batchRes,
                Settle(calls, c), c, resp)
       ELSE LET msg == IF Threw(resp)
                       THEN "An error occurred while creating the batch"
                       ELSE resp.message
            IN  /\ Local(loginForm, mainForm, rows,
                         IF c.live
                         THEN [batchRes EXCEPT !.error = msg,
                                               !.loading = FALSE]
                         ELSE batchRes,
                         Settle(calls, c))
                /\ last' = Step("createBatch.response", NullRec, c, resp, msg)

\* Variant: cancelling discards the pending payload at once and uploads
\* nothing.
HandleBatchResolutionCancel_Local ==
    /\ \/ BRMounted /\ batchResolution.status = "not_found"
          /\ ~batchRes.loading
       \/ BRMounted /\ batchResolution.status = "multiple_matches"
    /\ FailToMain(batchRes, calls)
    /\ last' = Step("handleBatchResolutionCancel", NullRec, NullRec, NullRec,
                    "")

\* BatchResolution.handleSelectBatch (Confirm Selection button, never
\* disabled).
HandleSelectBatch ==
    /\ MatchesShown
    /\ IF batchRes.selectedBatch = ""
       THEN /\ BRStep([batchRes EXCEPT
                         !.error = "Please select a batch from the list"])
            /\ last' = Step("handleSelectBatch", NullRec, NullRec, NullRec,
                            "Please select a batch from the list")
       ELSE IF batchRes.selectedBatch \in MatchIds(batchResolution)
       THEN /\ (userInfo # NullRec /\ pendingUploadData # NullRec
                    => Outstanding < MaxInFlight)
            /\ StartAppUpload("handleSelectBatch", userInfo,
                   pendingUploadData,
                   ResolvedUploadData(userInfo, pendingUploadData,
                                      batchRes.selectedBatch),
                   batchRes, calls, NullRec, NullRec)
       ELSE \* find() returns undefined: nothing happens
            /\ BRStep(batchRes)
            /\ last' = Step("handleSelectBatch", NullRec, NullRec, NullRec, "")

\* App.handleBatchResolutionCancel up to its await (Cancel (Skip Batch
\* Linking) button: disabled while loading in the not_found form, never
\* disabled in the multiple_matches form).
HandleBatchResolutionCancel ==
    /\ \/ NotFoundShown /\ ~batchRes.loading
       \/ MatchesShown
    /\ (userInfo # NullRec /\ pendingUploadData # NullRec
            => Outstanding < MaxInFlight)
    /\ StartAppUpload("handleBatchResolutionCancel", userInfo,
           pendingUploadData, CancelUploadData(userInfo, pendingUploadData),
           batchRes, calls, NullRec, NullRec)

\* App.handleBatchResolved / handleBatchResolutionCancel from the answer of
\* uploadSynthesisData on.
RecvUploadApp(c, resp) ==
    /\ c \in InFlight /\ c.kind = "upload" /\ c.from = "App"
    /\ resp \in UploadAnswers(c.payload)
    /\ IF Succeeded(resp)
       THEN /\ summaryMessage' = resp.message
            /\ summaryDetails' = resp.summary
            /\ currentView' = "summary"
            /\ batchResolution' = NullRec
            /\ pendingUploadData' = NullRec
            /\ UNCHANGED <<userInfo, sessionToken>>
            /\ Render("summary", userInfo, NullRec,
                      loginForm, mainForm, rows, batchRes, Settle(calls, c))
            /\ last' = Step("appUpload.response", NullRec, c, resp, "")
       ELSE /\ FailToMain(batchRes, Settle(calls, c))
            /\ last' = Step("appUpload.response", NullRec, c, resp,
                            IF Threw(resp) THEN "Upload error"
                            ELSE "Upload failed")

\* ------------------------------------------------------------ the program
\* The answers of the backend arrive in any order.
LoginResponse ==
    \E c \in InFlightOf("login") : \E resp \in LoginAnswers :
        RecvLogin(c, resp)
ResolveResponse ==
    \E c \in InFlightOf("resolve") : \E resp \in ResolveAnswers(c.batch_id) :
        RecvResolve(c, resp)
FormUploadResponse ==
    \E c \in InFlightOf("upload") : \E resp \in UploadAnswers(c.payload) :
        RecvUploadForm(c, resp)
CreateResponse ==
    \E c \in InFlightOf("create") : \E resp \in CreateAnswers :
        RecvCreate(c, resp)
AppUploadResponse ==
    \E c \in InFlightOf("upload") : \E resp \in UploadAnswers(c.payload) :
        RecvUploadApp(c, resp)
CellEdit ==
    \E i \in 1..MaxRows : \E key \in CellKeys : \E v \in CellTexts :
        HandleRowsChange(i, key, v)

Next ==
    \/ \E e \in EmailTexts : LoginSetEmail(e)
    \/ LoginHandleSubmit
    \/ LoginResponse
    \/ HandleAddMore
    \/ HandleLogout
    \/ \E ok \in BOOLEAN : RecvFields(ok)
    \/ \E p \in {""} \cup Range(TheUser.projects) : SetSelectedProject(p)
    \/ \E t \in {""} \cup DOMAIN SchemaMap : HandleSynthesisTypeChange(t)
    \/ \E b \in BatchTexts : SetBatchId(b)
    \/ HandleUpload
    \/ ResolveResponse
    \/ FormUploadResponse
    \/ HandleCancel
    \/ HandleAddRow
    \/ HandleRemoveRow
    \/ HandleClearAll
    \/ \E text \in PasteTexts : HandlePaste(text)
    \/ CellEdit
    \/ \E v \in NameTexts : SetBatchName(v)
    \/ \E v \in NewIdTexts : SetNewBatchId(v)
    \/ \E v \in DescTexts : SetBatchDescription(v)
    \/ \E v \in {""} \cup CandidateIds : SetSelectedBatch(v)
    \/ HandleCreateBatch
    \/ CreateResponse
    \/ HandleSelectBatch
    \/ HandleBatchResolutionCancel
    \/ AppUploadResponse

Spec == Init /\ [][Next]_vars

\* ------------------------------------------------- the table on its own
\* The form of a logged-in operator after the schemas arrived, worked with
\* the table controls only: richer schemas, pasted texts and cell values
\* than the session specification can afford.
Alpha == <<"A", "l", "p", "h", "a">>
Beta == <<"B", "e", "t", "a">>
Date1 == <<"2", "0", "2", "4", "-", "0", "1", "-", "0", "1">>
Date2 == <<"2", "0", "2", "4", "-", "0", "1", "-", "0", "2">>
ScenarioAText == Alpha \o <<TAB>> \o Date1 \o <<NL>> \o Beta \o <<TAB>> \o Date2
ScenarioAFields == <<"Sample Name", "Concentration">>

FieldLists ==
    {ScenarioAFields,
     <<"Concentration", "Sample Description", "Sample Name">>,
     <<"Solvent">>,
     <<"Sample Description", "Solvent", "Concentration">>}
OtherTypeFields == <<"Solvent", "Sample Name">>
\* The answers of getSynthesisFields: one or two synthesis types.
TableSchemaMaps ==
    {[T1 |-> f] : f \in FieldLists \ {ScenarioAFields}}
    \cup {[T1 |-> ScenarioAFields, T2 |-> OtherTypeFields]}

TablePasteTexts ==
    {ScenarioAText,
     <<>>,
     <<SP, NL, TAB>>,
     <<SP, TAB, SP, "x", TAB, COMMA, "y", SP, NL>>,
     <<SP, "q", NL>>,
     <<COMMA>>,
     <<NL, SP, NL, "a", COMMA, "b", COMMA, "c", COMMA, "d", COMMA, "e",
       COMMA, "f", NL>>}
TableCellTexts == {<<SP>>, <<"x">>}
\* The cells the operator edits by hand: those of the first schema field.
TableCellKeys(fields) == IF Len(fields) = 0 THEN {} ELSE {fields[1]}

InitTable ==
    /\ currentView = "main"
    /\ userInfo = TheUser
    /\ sessionToken = TheToken
    /\ batchResolution = NullRec
    /\ pendingUploadData = NullRec
    /\ summaryMessage = ""
    /\ summaryDetails = NullRec
    /\ loginForm = LoginInit
    /\ \E m \in TableSchemaMaps :
          mainForm = [FormInit EXCEPT !.synthesisFields = m]
    /\ rows = <<>>
    /\ batchRes = BRInit(NullRec)
    /\ calls = EmptyBag
    /\ last = NoStep

TableCellEdit ==
    \E i \in 1..MaxRows : \E key \in TableCellKeys(currentFields) :
        \E v \in TableCellTexts : HandleRowsChange(i, key, v)

NextTable ==
    \/ \E t \in {"", "T1", "T2"} : HandleSynthesisTypeChange(t)
    \/ HandleCancel
    \/ HandleAddRow
    \/ HandleRemoveRow
    \/ HandleClearAll
    \/ \E text \in TablePasteTexts : HandlePaste(text)
    \/ TableCellEdit

SpecTable == InitTable /\ [][NextTable]_vars

\* ================================================================ claims
\* How many calls of the given kinds are awaiting their answer.
CountOf(B, kinds) ==
    LET S == {c \in BagToSet(B) : c.kind \in kinds}
        RECURSIVE Sum(_)
        Sum(T) == IF T = {} THEN 0
                  ELSE LET c == CHOOSE x \in T : TRUE
                       IN  B[c] + Sum(T \ {c})
    IN  Sum(S)
Ambiguous == {"not_found", "multiple_matches"}
PayloadTriple(p) ==
    [project |-> p.project, synthesisType |-> p.synthesis_type,
     data |-> p.data]
TableOps == {"handleAddRow", "handleRemoveRow", "handleClearAll",
             "handlePaste", "handleRowsChange"}

\* C1: a handleUpload started with a non-empty batch identifier captures
\* the form's project, synthesis type and cleaned rows in its resolve call;
\* when that call answers not_found or multiple_matches the step issues no
\* upload, the view becomes batch_resolution, batchResolution is the answer
\* and the pending payload holds exactly the captured values.
C1_SuspendKeepsPayload ==
    [][/\ (last'.op = "handleUpload" /\ last'.issued # NullRec
             /\ last'.issued.kind = "resolve")
          => /\ Trim(mainForm.batchId) # <<>>
             /\ last'.issued.closure.selectedProject = mainForm.selectedProject
             /\ last'.issued.closure.selectedSynthesisType
                    = mainForm.selectedSynthesisType
             /\ last'.issued.closure.tableData = mainForm.tableData
       /\ (last'.op = "resolve.response" /\ last'.resp.status \in Ambiguous)
          => /\ currentView' = "batch_resolution"
             /\ batchResolution' = last'.resp
             /\ pendingUploadData'
                    = [project |-> last'.call.closure.selectedProject,
                       synthesisType |->
                           last'.call.closure.selectedSynthesisType,
                       data |-> last'.call.closure.tableData]
             /\ CountOf(calls', {"upload"}) = CountOf(calls, {"upload"})
             /\ CountOf(calls', {"resolve"}) = CountOf(calls, {"resolve"}) - 1
      ]_vars

C1_Witness ==
    /\ last.op = "resolve.response"
    /\ last.resp.status = "not_found"
    /\ currentView = "batch_resolution"
    /\ pendingUploadData # NullRec
    /\ Len(pendingUploadData.data) > 0

C3_CancelUploadsWithoutBatch ==
    [][last'.op = "handleBatchResolutionCancel"
         => /\ last'.issued # NullRec
            /\ last'.issued.kind = "upload"
            /\ last'.issued.payload.batch_id = null
            /\ PayloadTriple(last'.issued.payload) = pendingUploadData
            /\ CopiesIn(last'.issued, calls')
                   = CopiesIn(last'.issued, calls) + 1
      ]_vars

\* C4 as stated: a cancellation discards the pending payload, returns to
\* the form and issues no call.
C4_CancelIsLocal ==
    [][last'.op = "handleBatchResolutionCancel"
         => /\ pendingUploadData' = NullRec
            /\ currentView' = "main"
            /\ calls' = calls
      ]_vars

\* C4 (amended): a cancellation issues one upload request (batch id null)
\* and leaves the session in the batch_resolution view with the resolution
\* result and the pending payload kept; only when the request cannot be
\* built (the session has no user) does it discard the pending payload at
\* once, and then it shows the main view without issuing a call.
C4_CancelStartsUpload ==
    [][last'.op = "handleBatchResolutionCancel"
         => IF userInfo # NullRec /\ pendingUploadData # NullRec
            THEN /\ Outstanding' = Outstanding + 1
                 /\ CountOf(calls', {"upload"}) = CountOf(calls, {"upload"}) + 1
                 /\ currentView' = "batch_resolution"
                 /\ pendingUploadData' = pendingUploadData
                 /\ batchResolution' = batchResolution
            ELSE /\ calls' = calls
                 /\ currentView' = "main"
                 /\ pendingUploadData' = NullRec
      ]_vars

C4_Witness ==
    /\ last.op = "handleBatchResolutionCancel"
    /\ last.issued # NullRec
    /\ currentView = "batch_resolution"
    /\ pendingUploadData # NullRec
    /\ CountOf(calls, {"upload"}) = 1

\* C5: at most one resolve, create or upload call is outstanding.
C5_OneCallOutstanding ==
    CountOf(calls, {"resolve", "create", "upload"}) <= 1

\* C6: no table operation (add row, remove last row, clear all, cell edit,
\* paste) takes effect while a resolve, create or upload call is
\* outstanding.
C6_TableFrozenDuringCalls ==
    [][(last'.op \in TableOps
          /\ (rows' # rows \/ mainForm'.tableData # mainForm.tableData))
         => CountOf(calls, {"resolve", "create", "upload"}) = 0
      ]_vars

\* C7: handleUpload checks project, then synthesis type, then the cleaned
\* table, and on the first empty one reports that condition's own message
\* (the three messages differ), issues no call, and changes nothing but the
\* error message: selections, batch text, cleaned data, rows, view and
\* pending state stay as they were.  When all three are present a call is
\* issued.
C7_Expected(project, type, data) ==
    IF project = "" THEN "Please select a project"
    ELSE IF type = "" THEN "Please select a synthesis type"
    ELSE IF Len(data) = 0 THEN "Please enter at least one row of data"
    ELSE ""

C7_Probe(project, type, data) ==
    ValidationMessage([FormInit EXCEPT !.selectedProject = project,
                                       !.selectedSynthesisType = type,
                                       !.tableData = data])

C7_ValidationFailsFast ==
    [][last'.op = "handleUpload"
         => LET msg == C7_Expected(mainForm.selectedProject,
                                   mainForm.selectedSynthesisType,
                                   mainForm.tableData)
            IN  /\ \A p \in {"", "P1"} : \A t \in {"", "T1"} :
                     \A d \in {<<>>, <<[Operator |-> <<"N">>]>>} :
                        C7_Probe(p, t, d) = C7_Expected(p, t, d)
                /\ last'.msg = msg
                /\ msg # ""
                   => /\ mainForm' = [mainForm EXCEPT !.error = msg]
                      /\ rows' = rows
                      /\ calls' = calls
                      /\ last'.issued = NullRec
                      /\ UNCHANGED appVars
                /\ msg = ""
                   => /\ last'.issued # NullRec
                      /\ Outstanding' = Outstanding + 1
      ]_vars

C7_Witness ==
    /\ last.op = "handleUpload"
    /\ last.msg = "Please enter at least one row of data"
    /\ mainForm.error = last.msg
    /\ mainForm.selectedProject # ""
    /\ Len(rows) > 0
    /\ ~mainForm.loading
    /\ calls = EmptyBag

\* C8: the protocol follows only legal edges.  (a) handleUpload issues a
\* resolve call exactly when the batch text is non-empty after trimming,
\* and the call carries the trimmed text; otherwise it uploads with batch id
\* null.  (b) A create-batch call is issued only while the resolution
\* result held by the session is a not_found answer.  (c) A selection
\* starts its upload only while the resolution result is a
\* multiple_matches answer.  (d) A resolved answer leads straight to the
\* upload with the resolved id: the same step issues it and the session
\* does not enter the pause.
C8_LegalEdges ==
    [][/\ (last'.op = "handleUpload" /\ last'.issued # NullRec)
          => IF Trim(mainForm.batchId) # <<>>
             THEN /\ last'.issued.kind = "resolve"
                  /\ last'.issued.batch_id = Trim(mainForm.batchId)
                  /\ last'.issued.batch_id # <<>>
             ELSE /\ last'.issued.kind = "upload"
                  /\ last'.issued.payload.batch_id = null
       /\ (last'.op = "handleCreateBatch" /\ last'.issued # NullRec)
          => /\ last'.issued.kind = "create"
             /\ currentView = "batch_resolution"
             /\ batchResolution # NullRec
             /\ batchResolution.status = "not_found"
       /\ (last'.op = "handleSelectBatch" /\ last'.issued # NullRec)
          => /\ currentView = "batch_resolution"
             /\ batchResolution # NullRec
             /\ batchResolution.status = "multiple_matches"
       /\ (last'.op = "resolve.response" /\ ~Threw(last'.resp)
             /\ last'.resp.status = "resolved")
          => /\ last'.issued # NullRec
             /\ last'.issued.kind = "upload"
             /\ last'.issued.payload.batch_id = last'.resp.batch_id
             /\ CountOf(calls', {"create"}) = CountOf(calls, {"create"})
             /\ UNCHANGED appVars
      ]_vars

C8_Witness ==
    /\ last.op = "handleCreateBatch"
    /\ last.issued # NullRec
    /\ last.issued.kind = "create"
    /\ batchResolution.status = "not_found"
    /\ batchRes.loading

\* C9: handleCreateBatch with a batch name or a batch identifier text that
\* is empty or whitespace only reports a validation message and issues no
\* call: no create request, no upload; view, resolution result and pending
\* payload are unchanged (the not_found pause continues).
C9_CreateValidatesLocally ==
    [][(last'.op = "handleCreateBatch"
          /\ (Trim(batchRes.batchName) = <<>> \/ Trim(batchRes.batchId) = <<>>))
         => /\ calls' = calls
            /\ last'.issued = NullRec
            /\ batchRes'.error \in {"Batch name is required",
                                    "Batch ID is required"}
            /\ batchRes' = [batchRes EXCEPT !.error = batchRes'.error]
            /\ UNCHANGED appVars
            /\ currentView' = "batch_resolution"
            /\ batchResolution'.status = "not_found"
            /\ pendingUploadData' # NullRec
      ]_vars

C9_Witness ==
    /\ last.op = "handleCreateBatch"
    /\ last.msg = "Batch ID is required"
    /\ Trim(batchRes.batchName) # <<>>
    /\ batchRes.batchId = <<>>
    /\ currentView = "batch_resolution"
    /\ pendingUploadData # NullRec
    /\ calls = EmptyBag

\* C10: Confirm Selection with a chosen id that is not one of the listed
\* candidates (the empty value included) shows a validation error, issues
\* no upload and leaves the submission suspended.
C10_SelectRejectsNonMember ==
    [][(last'.op = "handleSelectBatch"
          /\ batchRes.selectedBatch \notin MatchIds(batchResolution))
         => /\ batchRes'.error # ""
            /\ calls' = calls
            /\ UNCHANGED appVars
      ]_vars

\* ------------------------------------------------------------ table claims
\* A row of the schema [Sample Name, Concentration] without its id.
ScenarioARow(sampleName, operator, timestamp, concentration) ==
    [k \in {"Sample Name", "Operator", "Timestamp", "Concentration"} |->
        CASE k = "Sample Name" -> sampleName
          [] k = "Operator" -> operator
          [] k = "Timestamp" -> timestamp
          [] k = "Concentration" -> concentration]

\* The paste of scenario A: the text of the scenario into an empty table
\* of the schema [Sample Name, Concentration].
ScenarioAPaste ==
    /\ rows = <<>>
    /\ currentFields = ScenarioAFields
    /\ last'.op = "handlePaste"
    /\ last'.input = ScenarioAText

\* C11 as stated: the paste of scenario A produces exactly the two rows
\* {Sample Name: Alpha, Operator: <name>, Timestamp: 2024-01-01,
\* Concentration: ''} and {Sample Name: Beta, Operator: <name>,
\* Timestamp: 2024-01-02, Concentration: ''}.
C11_ScenarioA ==
    [][ScenarioAPaste
         => /\ Len(rows') = 2
            /\ StripId(rows'[1])
                   = ScenarioARow(Alpha, operatorName, Date1, <<>>)
            /\ StripId(rows'[2])
                   = ScenarioARow(Beta, operatorName, Date2, <<>>)
      ]_vars

\* C11 (amended): the paste of scenario A produces exactly the two rows
\* {Sample Name: Alpha, Operator: 2024-01-01, Timestamp: '',
\* Concentration: ''} and {Sample Name: Beta, Operator: 2024-01-02,
\* Timestamp: '', Concentration: ''}: the second cell of a line goes to the
\* second column of the fixed order, Operator.
C11_ScenarioAByPosition ==
    [][ScenarioAPaste
         => /\ Len(rows') = 2
            /\ StripId(rows'[1]) = ScenarioARow(Alpha, Date1, <<>>, <<>>)
            /\ StripId(rows'[2]) = ScenarioARow(Beta, Date2, <<>>, <<>>)
      ]_vars

C11_Witness ==
    /\ last.op = "handlePaste"
    /\ currentFields = ScenarioAFields
    /\ Len(rows) = 2
    /\ rows[1]["Sample Name"] = Alpha
    /\ rows[2]["Sample Name"] = Beta
    /\ rows[2]["Operator"] = Date2

\* C12: for every non-blank pasted line, the row built for it holds the
\* trimmed cell i in the column at position i of the displayed column
\* order; cells beyond the length of the order are discarded (the row has
\* no other keys than its id and the columns); a column without a cell
\* holds its default: the operator's name for Operator, the empty string
\* for every other column.
C12_CellsByPosition ==
    [][last'.op = "handlePaste"
         => LET lines == PastedRows(last'.input)
                order == Columns(currentFields)
            IN  /\ Len(rows') = Len(rows) + Len(lines)
                /\ \A j \in 1..Len(lines) :
                      LET r == rows'[Len(rows) + j]
                          cells == ParseCells(lines[j])
                      IN  /\ DOMAIN r = {"id"} \cup Range(order)
                          /\ \A i \in 1..Len(order) :
                                r[order[i]] =
                                   IF i <= Len(cells) THEN cells[i]
                                   ELSE IF order[i] = "Operator"
                                   THEN operatorName ELSE <<>>
      ]_vars

C12_Witness ==
    /\ last.op = "handlePaste"
    /\ currentFields = ScenarioAFields
    /\ Len(rows) = 2
    /\ rows[1]["Sample Name"] = <<"q">>
    /\ rows[1]["Operator"] = TheUser.name
    /\ rows[2]["Sample Name"] = <<"a">>
    /\ rows[2]["Concentration"] = <<"d">>

\* The number of lines of a text that hold a character other than white
\* space, counted character by character from position i on; seen tells
\* whether the line in progress already holds one.
RECURSIVE NonBlankLines(_, _, _)
NonBlankLines(text, i, seen) ==
    IF i > Len(text) THEN (IF seen THEN 1 ELSE 0)
    ELSE IF text[i] = NL
    THEN (IF seen THEN 1 ELSE 0) + NonBlankLines(text, i + 1, FALSE)
    ELSE NonBlankLines(text, i + 1, seen \/ ~IsSpace(text[i]))

\* C13: a paste of a text with N non-blank lines makes the table N rows
\* longer and keeps the rows it had, unchanged and in order, as the first
\* rows of the new table; with N = 0 rows and cleaned data stay as they
\* were.
C13_PasteAppends ==
    [][last'.op = "handlePaste"
         => LET n == NonBlankLines(last'.input, 1, FALSE)
            IN  /\ Len(rows') = Len(rows) + n
                /\ SubSeq(rows', 1, Len(rows)) = rows
                /\ n = 0 => /\ rows' = rows
                            /\ mainForm'.tableData = mainForm.tableData
      ]_vars

C13_Witness ==
    /\ last.op = "handlePaste"
    /\ last.input = <<SP, "q", NL>>
    /\ currentFields = <<"Solvent">>
    /\ Len(rows) = 2
    /\ rows[1]["Solvent"] = <<"x">>
    /\ rows[2]["Operator"] = <<"q">>

\* order is the fixed column order of the schema fields: every field and
\* Operator and Timestamp once; Sample Name, if a field, first; then
\* Operator, then Timestamp; Sample Description, if a field, last; the
\* other fields in between, in the relative order they have in the schema.
Anchors == {"Sample Name", "Sample Description"}
PositionIn(seq, x) == CHOOSE i \in 1..Len(seq) : seq[i] = x
IsFixedOrder(order, fields) ==
    LET first == IF "Sample Name" \in Range(fields) THEN 1 ELSE 0
        others == Range(fields) \ Anchors
    IN  /\ Len(order) = Len(fields) + 2
        /\ Range(order) = Range(fields) \cup {"Operator", "Timestamp"}
        /\ first = 1 => order[1] = "Sample Name"
        /\ order[first + 1] = "Operator"
        /\ order[first + 2] = "Timestamp"
        /\ "Sample Description" \in Range(fields)
           => order[Len(order)] = "Sample Description"
        /\ \A a \in others : \A b \in others :
              PositionIn(fields, a) < PositionIn(fields, b)
              => PositionIn(order, a) < PositionIn(order, b)

\* The reorderings of a schema that keep the relative order of the fields
\* other than Sample Name and Sample Description.
Reorderings(fields) ==
    LET n == Len(fields)
        IsOther(f) == f \notin Anchors
    IN  {g \in [1..n -> Range(fields)] :
            /\ \A i \in 1..n : \A j \in 1..n : g[i] = g[j] => i = j
            /\ SelectSeq(g, IsOther) = SelectSeq(fields, IsOther)}

\* C14: for every schema the form holds, the column order of the paste
\* mapping is the fixed order of that schema, it is the same for every
\* reordering of the schema that keeps the relative order of the other
\* fields, and it is the order of the rendered columns.
C14_FixedColumnOrder ==
    FormMounted
    => \A t \in DOMAIN mainForm.synthesisFields :
          LET fields == mainForm.synthesisFields[t]
          IN  /\ IsFixedOrder(ColumnOrder(fields), fields)
              /\ \A g \in Reorderings(fields) :
                    /\ ColumnOrder(g) = ColumnOrder(fields)
                    /\ Columns(g) = ColumnOrder(fields)
              /\ Columns(fields) = ColumnOrder(fields)

C14_Witness ==
    /\ last.op = "handlePaste"
    /\ currentFields = <<"Concentration", "Sample Description", "Sample Name">>
    /\ Len(rows) = 1
    /\ rows[1]["Sample Name"] = <<"a">>
    /\ rows[1]["Concentration"] = <<"d">>
    /\ rows[1]["Sample Description"] = <<"e">>

\* A row has content: a schema field other than Operator and Timestamp
\* holds a character that is not white space.
HasContent(row, fields) ==
    \E f \in Range(fields) \ {"Operator", "Timestamp"} :
        \E i \in 1..Len(row[f]) : ~IsSpace(row[f][i])

\* data is the cleaned snapshot of the rows rs: the rows with content, in
\* table order, each without its id and otherwise as it is.
IsCleanedSnapshot(data, rs, fields) ==
    LET kept == {i \in 1..Len(rs) : HasContent(rs[i], fields)}
    IN  /\ Len(data) = Cardinality(kept)
        /\ \A i \in kept :
              LET k == Cardinality({j \in kept : j <= i})
              IN  /\ DOMAIN data[k] = (DOMAIN rs[i]) \ {"id"}
                  /\ \A key \in DOMAIN data[k] : data[k][key] = rs[i][key]

SnapshotOps == {"handlePaste", "handleRemoveRow", "handleRowsChange"}

\* C15: the cleaned snapshot handed to the form by a paste, a removal or a
\* cell edit holds exactly the rows in which some schema field other than
\* Operator and Timestamp is neither empty nor white space only (a row
\* filled in Operator or Timestamp alone is left out), without their ids
\* and in table order.
C15_CleanedSnapshot ==
    [][(last'.op \in SnapshotOps /\ rows' # rows)
         => IsCleanedSnapshot(mainForm'.tableData, rows', currentFields)
      ]_vars

C15_Witness ==
    /\ last.op = "handleRowsChange"
    /\ currentFields = <<"Solvent">>
    /\ Len(rows) = 2
    /\ rows[1]["Operator"] = <<"q">>
    /\ rows[1]["Solvent"] = <<SP>>
    /\ rows[2]["Solvent"] = <<COMMA, "y">>
    /\ Len(mainForm.tableData) = 1
    /\ mainForm.tableData[1]["Solvent"] = <<COMMA, "y">>

\* C16: the rows of the table have pairwise distinct identifiers; hence a
\* row appended by add row or by a paste has an identifier that no row
\* already in the table has.
C16_DistinctIds ==
    \A i \in 1..Len(rows) : \A j \in 1..Len(rows) :
        rows[i]["id"] = rows[j]["id"] => i = j

C16_Witness ==
    /\ last.op = "handlePaste"
    /\ currentFields = OtherTypeFields
    /\ Len(rows) = 2
    /\ rows[1]["Operator"] = TheUser.name
    /\ rows[1]["Sample Name"] = <<>>
    /\ rows[2]["Sample Name"] = <<"q">>
    /\ rows[1]["id"] # rows[2]["id"]

\* ---------------------------------------------------------- session claims
UploadResponses == {"performUpload.response", "appUpload.response"}
Rejected(resp) == ~Threw(resp) /\ ~Succeeded(resp)

\* C17: when an upload is answered with success = false, the message is
\* shown and the form is on screen afterwards with the project and the
\* synthesis type of the rejected upload; if the form was on screen during
\* the call (upload issued by the form) its batch text, rows and cleaned
\* data are left as they are, and if it was not (upload issued by a
\* resumption) the form holds the rows of the rejected upload again.
C17_RejectionRestoresForm ==
    [][(last'.op \in UploadResponses /\ Rejected(last'.resp))
         => /\ last'.msg # ""
            /\ FormMounted'
            /\ mainForm'.selectedProject = last'.call.payload.project
            /\ mainForm'.selectedSynthesisType
                   = last'.call.payload.synthesis_type
            /\ IF FormMounted
               THEN /\ mainForm'.error = last'.resp.message
                    /\ mainForm'.batchId = mainForm.batchId
                    /\ mainForm'.tableData = mainForm.tableData
                    /\ rows' = rows
               ELSE mainForm'.tableData = last'.call.payload.data
      ]_vars

\* C18: the summary view is entered only by the step that handles an
\* upload answer with success = true, and it then shows the message and
\* the summary of that answer; the step that handles an upload answer with
\* success = false, or a failed upload call, does not enter the summary
\* view: it reports a message and the form is on screen afterwards.
C18_SummaryOnlyOnSuccess ==
    [][/\ (currentView' = "summary" /\ currentView # "summary")
          => /\ last'.op \in UploadResponses
             /\ Succeeded(last'.resp)
             /\ summaryMessage' = last'.resp.message
             /\ summaryDetails' = last'.resp.summary
       /\ (last'.op \in UploadResponses /\ ~Succeeded(last'.resp))
          => /\ ~(currentView' = "summary" /\ currentView # "summary")
             /\ last'.msg # ""
             /\ FormMounted'
             /\ last'.op = "performUpload.response"
                => mainForm'.error = last'.msg
      ]_vars

\* C19: clear all keeps the number of rows and, row by row, the identifier;
\* in every row it leaves each schema field and Timestamp empty and
\* Operator equal to the operator's name; the cleaned data of the form is
\* empty afterwards, and it is the cleaned snapshot of the cleared rows.
C19_ClearAllKeepsRows ==
    [][last'.op = "handleClearAll"
         => /\ Len(rows') = Len(rows)
            /\ \A i \in 1..Len(rows) :
                  /\ rows'[i]["id"] = rows[i]["id"]
                  /\ DOMAIN rows'[i] = DOMAIN rows[i]
                  /\ \A f \in Range(currentFields) : rows'[i][f] = <<>>
                  /\ rows'[i]["Timestamp"] = <<>>
                  /\ rows'[i]["Operator"] = operatorName
            /\ mainForm'.tableData = <<>>
            /\ IsCleanedSnapshot(mainForm'.tableData, rows', currentFields)
      ]_vars

C19_Witness ==
    /\ last.op = "handleClearAll"
    /\ currentFields = <<"Sample Description", "Solvent", "Concentration">>
    /\ Len(rows) = 2
    /\ rows[2]["id"] = 1
    /\ rows[2]["Operator"] = TheUser.name
    /\ rows[2]["Solvent"] = <<>>
    /\ mainForm.tableData = <<>>

\* C20: whenever the selected synthesis type of the form changes (to
\* another type, to none, or back to a type used before), the table is
\* empty afterwards: the row list and the cleaned data of the form hold no
\* row.
C20_TypeChangeEmptiesTable ==
    [][(FormMounted /\ FormMounted'
          /\ mainForm'.selectedSynthesisType # mainForm.selectedSynthesisType)
         => /\ rows' = <<>>
            /\ mainForm'.tableData = <<>>
      ]_vars

C20_Witness ==
    /\ last.op = "handleSynthesisTypeChange"
    /\ last.input.from = "T1"
    /\ last.input.rows = 2
    /\ mainForm.selectedSynthesisType = "T2"
    /\ currentFields = OtherTypeFields
    /\ rows = <<>>
    /\ mainForm.tableData = <<>>

\* The operator can go on: a component with enabled controls is on screen.
\* The summary and the login form always are; the form is once its busy
\* flag is cleared; the pause is when it awaits a decision.
AtRest ==
    \/ currentView = "summary"
    \/ LoginMounted /\ ~loginForm.loading
    \/ FormMounted /\ ~mainForm.loading
    \/ NotFoundShown /\ ~batchRes.loading
    \/ MatchesShown

\* C21: once every call has returned or failed, each submission has ended:
\* the session shows the summary, or the form with its busy flag cleared,
\* or the pause awaiting a decision (or the login form after a logout); it
\* is never left without a component the operator can continue with.
C21_SubmissionsEnd == calls = EmptyBag => AtRest

\* ---- C22: paste, export, paste again ----

RECURSIVE JoinWith(_, _)
JoinWith(parts, d) ==
    IF Len(parts) = 0 THEN <<>>
    ELSE IF Len(parts) = 1 THEN parts[1]
    ELSE parts[1] \o <<d>> \o JoinWith(Tail(parts), d)

\* The export of the claim: one line per row, the row's cells in the order
\* of the displayed columns, cells separated by tabs, lines by newlines.
ExportLine(row, fields) ==
    LET cols == Columns(fields)
    IN  JoinWith([i \in 1..Len(cols) |-> row[cols[i]]], TAB)

ExportRows(rs, fields) ==
    JoinWith([i \in 1..Len(rs) |-> ExportLine(rs[i], fields)], NL)

\* A clean row: some cell of it holds a character that is not white space.
IsCleanRow(row, fields) ==
    \E k \in Range(Columns(fields)) :
        \E i \in 1..Len(row[k]) : ~IsSpace(row[k][i])

FieldValues(rs) == [i \in 1..Len(rs) |-> StripId(rs[i])]

\* The rows a paste of `text` has just appended to the table.
JustPasted == SubSeq(rows', Len(rows) + 1, Len(rows'))

\* C22: paste-then-export is idempotent for clean rows: the clean rows a
\* paste has produced, exported as lines of cells in the fixed column
\* order and pasted again with the same schema and operator, come back as
\* rows with the same field values, one row per exported row.
C22_PasteExportIdempotent ==
    [][last'.op = "handlePaste"
         => LET first == SelectSeq(JustPasted,
                             LAMBDA r : IsCleanRow(r, currentFields))
                again == NewRows(ExportRows(first, currentFields), <<>>,
                                 currentFields, operatorName)
            IN  FieldValues(again) = FieldValues(first)
      ]_vars

\* A paste has produced a row without any character in it (two empty cells,
\* the second one replacing the operator's name): exported, it is a line
\* of tabs, which a second paste drops as a blank line.
C22_EmptyRowPasted ==
    /\ last.op = "handlePaste"
    /\ last.input = <<COMMA>>
    /\ Len(rows) > 0
    /\ ~IsCleanRow(rows[Len(rows)], currentFields)

\* A paste has produced a clean row whose cells include an empty one, a
\* pasted operator and a cell with a comma in it.
C22_Witness ==
    /\ last.op = "handlePaste"
    /\ last.input = <<SP, TAB, SP, "x", TAB, COMMA, "y", SP, NL>>
    /\ currentFields = ScenarioAFields
    /\ Len(rows) = 2
    /\ rows[2]["Sample Name"] = <<>>
    /\ rows[2]["Operator"] = <<"x">>
    /\ rows[2]["Timestamp"] = <<COMMA, "y">>

\* ---- C23: a failed create-batch call ----

\* C23: when a create-batch call is rejected by the backend or fails at
\* transport level, no upload is issued, the error is shown, the busy
\* flag is cleared, and the session remains in the not_found pause with
\* its resolution result and pending payload unchanged.
C23_CreateFailureKeepsPause ==
    [][(last'.op = "createBatch.response" /\ ~Succeeded(last'.resp))
         => /\ last'.issued = NullRec
            /\ CountOf(calls', {"upload"}) = CountOf(calls, {"upload"})
            /\ NotFoundShown'
            /\ last'.msg # ""
            /\ batchRes'.error = last'.msg
            /\ ~batchRes'.loading
            /\ pendingUploadData' = pendingUploadData
            /\ pendingUploadData' # NullRec
            /\ batchResolution' = batchResolution
      ]_vars

\* ---- C24: one upload per suspension ----

\* The upload requests in flight that a decision in the pause has started.
PauseUploads == {c \in InFlight : c.kind = "upload" /\ c.from = "App"}

\* C24: each suspension results in at most one upload request: no action
\* in the batch_resolution view (Confirm Selection, Create Batch, Cancel,
\* repeated or combined) starts an upload of the pending rows while an
\* upload of these same rows, started from the pause, is in flight.
C24_OneUploadPerSuspension ==
    [][(/\ last'.issued # NullRec
        /\ last'.issued.kind = "upload"
        /\ last'.issued.from = "App")
         => \A c \in PauseUploads :
                PayloadTriple(c.payload) # PayloadTriple(last'.issued.payload)
      ]_vars

\* ---- C25: no view but login without a user ----

\* C25: in every reachable state, late answers of earlier upload calls
\* included, a view other than login implies a logged-in user: after a
\* logout the view stays login and the user info stays null until the
\* next successful login.
C25_ViewImpliesUser == currentView # "login" => userInfo # NullRec

\* ---- C26: an earlier submission's upload and a later suspension ----

\* C26: while the session is in the batch_resolution view for a
\* submission, the completion of an upload call neither clears nor
\* replaces the resolution result and the pending payload unless that
\* upload carries the pending payload of this very suspension (its own
\* resumption).
C26_SuspensionEndsByOwnResumption ==
    [][(/\ last'.op \in UploadResponses
        /\ currentView = "batch_resolution"
        /\ batchResolution # NullRec
        /\ pendingUploadData # NullRec
        /\ PayloadTriple(last'.call.payload) # pendingUploadData)
         => /\ batchResolution' = batchResolution
            /\ pendingUploadData' = pendingUploadData
            /\ currentView' = "batch_resolution"
      ]_vars

\* ---- C27: the form holds the cleaned snapshot of the table ----

\* The rows of an upload payload are rows of a cleaned snapshot: none
\* carries the table's transient id, each has a character that is not
\* white space in some field of its synthesis type's schema.
IsCleanPayload(p) ==
    \A i \in 1..Len(p.data) :
        /\ "id" \notin DOMAIN p.data[i]
        /\ p.synthesis_type \in DOMAIN SchemaMap
        /\ HasContent(p.data[i], SchemaMap[p.synthesis_type])

\* C27: after every table operation (add row, paste, remove last row,
\* clear all, cell edit, schema change) the data the form holds for
\* submission is the cleaned snapshot of the current row list (the
\* non-empty rows, in order, ids stripped); hence no upload payload has a
\* row with a transient id or an empty row.
C27_FormHoldsCleanedSnapshot ==
    /\ FormMounted
          => IsCleanedSnapshot(mainForm.tableData, rows, currentFields)
    /\ \A c \in InFlight : c.kind = "upload" => IsCleanPayload(c.payload)

\* A row was added (and left blank) next to a filled-in one, the form was
\* submitted, and the upload in flight carries the filled-in row only.
C27_Witness ==
    /\ last.op = "resolve.response"
    /\ FormMounted
    /\ Len(rows) = 2
    /\ ~HasContent(rows[1], currentFields)
    /\ Len(mainForm.tableData) = 1
    /\ \E c \in InFlight :
          /\ c.kind = "upload"
          /\ c = last.issued
          /\ Len(c.payload.data) = 1
          /\ c.payload.data[1] = StripId(rows[2])

\* ---- C28: the payload is the snapshot taken at the click on Upload ----

SnapshotOf(f) ==
    [project |-> f.selectedProject,
     synthesisType |-> f.selectedSynthesisType,
     data |-> f.tableData]

ClosureSnapshot(c) == SnapshotOf(c.closure)

PassedValidation(t) ==
    t.project # "" /\ t.synthesisType # "" /\ Len(t.data) > 0

\* C28: the data, project and synthesis type of every upload payload are
\* the cleaned snapshot and the selections that passed validation when
\* the operator clicked Upload: the click captures them, the answer of the
\* resolve call uploads or suspends what the click captured and not what
\* the form holds by then, the pause uploads what was suspended, and no
\* table edit or paste changes a call in flight or the pending payload.
C28_PayloadIsSnapshotAtStart ==
    [][/\ (last'.op = "handleUpload" /\ last'.issued # NullRec)
          => /\ PassedValidation(SnapshotOf(mainForm))
             /\ IsCleanedSnapshot(mainForm.tableData, rows, currentFields)
             /\ IF last'.issued.kind = "resolve"
                THEN ClosureSnapshot(last'.issued) = SnapshotOf(mainForm)
                ELSE PayloadTriple(last'.issued.payload)
                         = SnapshotOf(mainForm)
       /\ (last'.op = "resolve.response" /\ last'.issued # NullRec)
          => /\ last'.issued.kind = "upload"
             /\ PayloadTriple(last'.issued.payload)
                    = ClosureSnapshot(last'.call)
             /\ PassedValidation(ClosureSnapshot(last'.call))
       /\ (last'.op = "resolve.response"
             /\ pendingUploadData' # pendingUploadData)
          => /\ pendingUploadData' = ClosureSnapshot(last'.call)
             /\ PassedValidation(ClosureSnapshot(last'.call))
       /\ (last'.op \in {"handleSelectBatch", "handleBatchResolutionCancel"}
             /\ last'.issued # NullRec)
          => /\ PayloadTriple(last'.issued.payload) = pendingUploadData
             /\ PassedValidation(pendingUploadData)
       /\ (last'.op = "createBatch.response" /\ last'.issued # NullRec)
          => /\ PayloadTriple(last'.issued.payload)
                    = last'.call.closure.pendingUploadData
             /\ PassedValidation(last'.call.closure.pendingUploadData)
       /\ (last'.op = "handleCreateBatch" /\ last'.issued # NullRec)
          => last'.issued.closure.pendingUploadData = pendingUploadData
       /\ last'.op \in TableOps
          => /\ calls' = calls
             /\ pendingUploadData' = pendingUploadData
      ]_vars

\* The operator edited the table while the resolve call was in flight;
\* the call answered "resolved" and the upload it started carries the row
\* of the click, not the rows the form holds now.
C28_Witness ==
    /\ last.op = "resolve.response"
    /\ last.call.live
    /\ last.issued # NullRec
    /\ BagIn(last.issued, calls)
    /\ FormMounted
    /\ Len(last.issued.payload.data) = 1
    /\ Len(mainForm.tableData) = 2
    /\ last.issued.payload.data = last.call.closure.tableData

====
